---------------------------- MODULE Spec2Model ----------------------------
(***************************************************************************)
(* gitpeek: the GitHub commit tracker of src/main.go (the full program     *)
(* starts at line 106 of that file).  The model follows main():            *)
(* configuration, repository listing, window computation, the per          *)
(* repository fetch / classify / detail loop and the report.               *)
(*                                                                         *)
(* Time is counted in whole hours.  Instant 0 is a Monday 00:00 UTC.  A    *)
(* location is UTC until the instant zone.at and UTC+zone.shift from then  *)
(* on, so a daylight-saving change is a location with a shift of 1 or -1.  *)
(* Commit messages (and their truncation) are not modelled: a commit is    *)
(* its SHA and its author date.                                            *)
(***************************************************************************)
EXTENDS Integers, Sequences, FiniteSets, TLC

VARIABLES
    pc,             \* position of main(): start, list, ranges, loop, details, report, done
    token,          \* *token after flag and environment lookup
    username,       \* *username after flag and environment lookup
    help,           \* *help
    exitCode,       \* exit status of the process, meaningful once pc = "done"
    fatal,          \* history: "none", "config" or "listing"
    netCalls,       \* history: number of HTTP requests issued so far
    now, zone,      \* time.Now() and its Location, as read by getTimeRanges
    todayStart, todayEnd, weekStart, weekEnd,
    repos,          \* result of GetUserRepositories
    i,              \* 1-based index of the repository being processed
    commits,        \* result of GetCommitsForRepo for repos[i]
    j,              \* 1-based index of the commit whose detail is looked up
    todayStats, weekStats,
    todayTotal, weekTotal, weekAdditions, weekDeletions,
    fetchLog,       \* history: per processed repository, what the fetch returned
    detailLog,      \* history: per processed repository, per commit, the lookup outcome
    out             \* what printCommitStats printed: [today |-> lines, week |-> lines]

vars == << pc, token, username, help, exitCode, fatal, netCalls, now, zone,
           todayStart, todayEnd, weekStart, weekEnd, repos, i, commits, j,
           todayStats, weekStats, todayTotal, weekTotal, weekAdditions,
           weekDeletions, fetchLog, detailLog, out >>

---------------------------------------------------------------------------
(* Bounds of the model *)

\* longest repository list the lister returns in the pipeline
MaxRepos == 2
\* longest commit list one fetch returns in the pipeline
MaxCommits == 2
\* longest per-repository listing handed to the report on its own
MaxStats == 7
\* largest commit count of an entry handed to the report on its own
MaxCount == 5
\* last current instant (in hours) tried by the window computation: two weeks
MaxNow == 335
\* last day on which the location changes its UTC offset
MaxShiftDay == 13

(* Program constants *)

\* 24 * time.Hour, in hours
DayHours == 24
\* 7 * 24 * time.Hour, in days
WeekDays == 7
\* maxShow := 3
maxShow == 3
\* sort.Slice sorts slices of at most 12 elements by insertion sort
maxInsertion == 12
\* gap of the ShellSort pass go1.18 makes before that insertion sort
shellGap == 6

---------------------------------------------------------------------------
(* time.Time and time.Location *)

UTC == [shift |-> 0, at |-> 0]

\* Location.lookup: the UTC offset in force at instant u
Offset(z, u) == IF u < z.at THEN 0 ELSE z.shift

\* the wall clock reading of instant u, in hours since Monday 00:00 of week 0
Wall(z, u) == u + Offset(z, u)

\* now.Year(), now.Month(), now.Day(): the local calendar day, as a day number
LocalDay(z, u) == Wall(z, u) \div DayHours

\* t.Clock(): the local hour of the day
LocalHour(z, u) == Wall(z, u) % DayHours

\* now.Weekday(): Sunday = 0, Monday = 1, ..., Saturday = 6
Weekday(z, u) == (LocalDay(z, u) + 1) % 7

\* time.Date(y, m, d, h, 0, 0, 0, loc): the instants whose wall clock reads
\* hour h of day d.  When the reading is skipped or repeated by an offset
\* change, Date returns a time correct in one of the two zones involved and
\* does not say which.
Date(z, d, h) ==
    LET wall  == d * DayHours + h
        cands == { wall - o : o \in {0, z.shift} }
        exact == { u \in cands : Wall(z, u) = wall }
    IN  IF exact # {} THEN exact ELSE cands

\* t.AddDate(0, 0, days): same clock reading, `days` calendar days later
AddDate(z, t, days) == Date(z, LocalDay(z, t) + days, LocalHour(z, t))

\* t.Add(d)
Add(t, hours) == t + hours

\* getTimeRanges as a relation: every (todayStart, todayEnd, weekStart, weekEnd)
\* it can return when time.Now() is n in location z
getTimeRanges(z, n) ==
    LET wd0     == Weekday(z, n)
        weekday == IF wd0 = 0 THEN 7 ELSE wd0
    IN  UNION { { [todayStart |-> ts,
                   todayEnd   |-> Add(ts, DayHours),
                   weekStart  |-> ws,
                   weekEnd    |-> Add(ws, WeekDays * DayHours)]
                  : ws \in AddDate(z, ts, -(weekday - 1)) }
                : ts \in Date(z, LocalDay(z, n), 0) }

---------------------------------------------------------------------------
(* Commits, buckets and the report *)

\* the i-th commit of a fetch result, authored at instant d
MkCommit(sha, d) == [sha |-> sha, date |-> d]

\* a CommitStats record
MkStats(repo, cs) == [Repository |-> repo, Count |-> Len(cs), Commits |-> cs]

\* InRange with the end instant let in: !commitTime.After(end)
InRange_closedEnd(t, start, end) == ~(t < start) /\ ~(end < t)

\* !commitTime.Before(start) && commitTime.Before(end)
InRange(t, start, end) == ~(t < start) /\ t < end

filterCommitsByTimeRange(cs, start, end) ==
    SelectSeq(cs, LAMBDA c : InRange(c.date, start, end))

\* the less function handed to sort.Slice, on 1-based positions
Less(s, a, b) == s[a].Count > s[b].Count

Swap(s, a, b) == [s EXCEPT ![a] = s[b], ![b] = s[a]]

RECURSIVE InsertInner(_, _)
\* for j := i; j > a && data.Less(j, j-1); j-- { data.Swap(j, j-1) }
InsertInner(s, k) ==
    IF k > 1 /\ Less(s, k, k - 1) THEN InsertInner(Swap(s, k, k - 1), k - 1) ELSE s

RECURSIVE InsertOuter(_, _)
\* for i := a + 1; i < b; i++ { ... }
InsertOuter(s, k) == IF k > Len(s) THEN s ELSE InsertOuter(InsertInner(s, k), k + 1)

insertionSort(s) == InsertOuter(s, 2)

RECURSIVE ShellLoop(_, _)
\* for i := a + 6; i < b; i++ { if data.Less(i, i-6) { data.Swap(i, i-6) } }
ShellLoop(s, k) ==
    IF k > Len(s) THEN s
    ELSE ShellLoop(IF Less(s, k, k - shellGap) THEN Swap(s, k, k - shellGap) ELSE s, k + 1)

\* The Go releases the program builds with ("Go 1.18 or newer").  sort.Slice is
\* documented as not stable; what it does to a slice of at most maxInsertion
\* elements depends on the release: go1.18 makes a ShellSort pass with gap 6
\* and then sorts by insertion, go1.19 and later sort by insertion alone.
Builds == {"go1.18", "go1.19"}

\* sort.Slice(stats, less) for Len(stats) <= maxInsertion
sortSlice(build, s) ==
    IF build = "go1.18" THEN insertionSort(ShellLoop(s, shellGap + 1))
    ELSE insertionSort(s)

Line(kind, repo, n) == [kind |-> kind, repo |-> repo, n |-> n]

Min(a, b) == IF a < b THEN a ELSE b

\* StatLines with the remainder line printed from maxShow commits on:
\* len(stat.Commits) >= maxShow in place of len(stat.Commits) > maxShow
StatLines_moreAtCap(stat) ==
    IF stat.Count > 0
    THEN LET shown == Min(maxShow, Len(stat.Commits))
         IN  << Line("repo", stat.Repository, stat.Count) >>
             \o [p \in 1..shown |-> Line("commit", stat.Repository, stat.Commits[p].sha)]
             \o (IF Len(stat.Commits) >= maxShow
                 THEN << Line("more", stat.Repository, Len(stat.Commits) - shown) >>
                 ELSE << >>)
    ELSE << >>

\* the lines printed for one entry of the ranked listing
StatLines(stat) ==
    IF stat.Count > 0
    THEN LET shown == Min(maxShow, Len(stat.Commits))
         IN  << Line("repo", stat.Repository, stat.Count) >>
             \o [p \in 1..shown |-> Line("commit", stat.Repository, stat.Commits[p].sha)]
             \o (IF Len(stat.Commits) > shown
                 THEN << Line("more", stat.Repository, Len(stat.Commits) - shown) >>
                 ELSE << >>)
    ELSE << >>

RECURSIVE ListingLines(_, _)
ListingLines(s, k) == IF k > Len(s) THEN << >> ELSE StatLines(s[k]) \o ListingLines(s, k + 1)

\* printCommitStats: the lines printed after the title, and the slice as the
\* call leaves it (sort.Slice sorts the caller's slice in place)
printCommitStats(build, stats, totalCommits) ==
    IF totalCommits = 0
    THEN [lines |-> << Line("total", 0, totalCommits), Line("none", 0, 0) >>,
          stats |-> stats]
    ELSE LET sorted == sortSlice(build, stats)
         IN  [lines |-> << Line("total", 0, totalCommits), Line("byrepo", 0, 0) >>
                        \o ListingLines(sorted, 1),
              stats |-> sorted]

---------------------------------------------------------------------------
(* The collaborators: what the environment may hand to main() *)

\* values of a flag or an environment variable: unset, or set
Strings == {"", "x"}

\* repositories are named 1, 2, ... in the order the lister returns them
RepoLists == { [r \in 1..n |-> r] : n \in 0..MaxRepos }

\* author dates the fetcher returns: never before `since` (= weekStart), with
\* no upper bound (a date at or after weekEnd is possible)
SampleDates == << weekStart, todayStart, todayEnd, weekEnd >>

\* the commit lists a fetch may return: n commits with SHAs 1..n whose dates
\* run through SampleDates from position s on
FetchResults ==
    { [p \in 1..n |-> MkCommit(p, SampleDates[((s + p - 2) % Len(SampleDates)) + 1])]
        : n \in 0..MaxCommits, s \in 1..Len(SampleDates) }

\* detail.Stats of a commit, as the server holds it
Additions(c) == c.sha + 1
Deletions(c) == c.sha

\* current instant of the pipeline runs: a Wednesday noon
PipelineNows == {60}

---------------------------------------------------------------------------
(* main() *)

Init ==
    /\ pc = "start"
    /\ token = "" /\ username = "" /\ help = FALSE
    /\ exitCode = 0 /\ fatal = "none" /\ netCalls = 0
    /\ now = 0 /\ zone = UTC
    /\ todayStart = 0 /\ todayEnd = 0 /\ weekStart = 0 /\ weekEnd = 0
    /\ repos = << >> /\ i = 1 /\ commits = << >> /\ j = 1
    /\ todayStats = << >> /\ weekStats = << >>
    /\ todayTotal = 0 /\ weekTotal = 0 /\ weekAdditions = 0 /\ weekDeletions = 0
    /\ fetchLog = << >> /\ detailLog = << >>
    /\ out = [today |-> << >>, week |-> << >>]

\* if *help || *token == "" || *username == "" { usage; return }
ShowUsage(h, t, u) == h \/ t = "" \/ u = ""

\* flag.Parse, the environment fallback and the usage branch
ParseFlags ==
    /\ pc = "start"
    /\ \E tf \in Strings, te \in Strings, uf \in Strings, ue \in Strings, h \in BOOLEAN :
         LET t == IF tf = "" THEN te ELSE tf
             u == IF uf = "" THEN ue ELSE uf
         IN  /\ token' = t /\ username' = u /\ help' = h
             /\ IF ShowUsage(h, t, u)
                THEN /\ pc' = "done"
                     /\ exitCode' = 0
                     /\ fatal' = IF t = "" \/ u = "" THEN "config" ELSE "none"
                ELSE /\ pc' = "list"
                     /\ UNCHANGED << exitCode, fatal >>
    /\ UNCHANGED << netCalls, now, zone, todayStart, todayEnd, weekStart, weekEnd,
                    repos, i, commits, j, todayStats, weekStats, todayTotal,
                    weekTotal, weekAdditions, weekDeletions, fetchLog, detailLog, out >>

\* ListReposFail with `return` in place of os.Exit(1)
ListReposFail_return ==
    /\ pc = "list"
    /\ netCalls' = netCalls + 1
    /\ pc' = "done"
    /\ exitCode' = 0
    /\ fatal' = "listing"
    /\ UNCHANGED << token, username, help, now, zone, todayStart, todayEnd,
                    weekStart, weekEnd, repos, i, commits, j, todayStats, weekStats,
                    todayTotal, weekTotal, weekAdditions, weekDeletions, fetchLog,
                    detailLog, out >>

\* client.GetUserRepositories() fails: os.Exit(1)
ListReposFail ==
    /\ pc = "list"
    /\ netCalls' = netCalls + 1
    /\ pc' = "done"
    /\ exitCode' = 1
    /\ fatal' = "listing"
    /\ UNCHANGED << token, username, help, now, zone, todayStart, todayEnd,
                    weekStart, weekEnd, repos, i, commits, j, todayStats, weekStats,
                    todayTotal, weekTotal, weekAdditions, weekDeletions, fetchLog,
                    detailLog, out >>

\* client.GetUserRepositories() succeeds
ListReposOK ==
    /\ pc = "list"
    /\ netCalls' = netCalls + 1
    /\ \E rs \in RepoLists : repos' = rs
    /\ pc' = "ranges"
    /\ UNCHANGED << token, username, help, exitCode, fatal, now, zone, todayStart,
                    todayEnd, weekStart, weekEnd, i, commits, j, todayStats,
                    weekStats, todayTotal, weekTotal, weekAdditions, weekDeletions,
                    fetchLog, detailLog, out >>

\* where main() stands when the loop variable becomes k
LoopPos(k) == IF k > Len(repos) THEN "report" ELSE "loop"

\* todayStart, todayEnd, weekStart, weekEnd := getTimeRanges(), with time.Now()
\* among nows and the local Location among zones
Ranges(nows, zones) ==
    /\ pc = "ranges"
    /\ \E n \in nows, z \in zones :
         \E r \in getTimeRanges(z, n) :
            /\ now' = n /\ zone' = z
            /\ todayStart' = r.todayStart /\ todayEnd' = r.todayEnd
            /\ weekStart' = r.weekStart /\ weekEnd' = r.weekEnd
    /\ i' = 1
    /\ pc' = LoopPos(1)
    /\ UNCHANGED << token, username, help, exitCode, fatal, netCalls, repos, commits,
                    j, todayStats, weekStats, todayTotal, weekTotal, weekAdditions,
                    weekDeletions, fetchLog, detailLog, out >>

\* AfterFetchError leaving the loop: `break` in place of `continue`
AfterFetchError_break(k) == Len(repos) + 1

\* `continue` after a failed GetCommitsForRepo: the next value of the loop variable
AfterFetchError(k) == k + 1

\* client.GetCommitsForRepo(repo, weekStart) fails: the repository is skipped
FetchFail ==
    /\ pc = "loop"
    /\ netCalls' = netCalls + 1
    /\ fetchLog' = Append(fetchLog, [repo |-> repos[i], ok |-> FALSE, commits |-> << >>])
    /\ detailLog' = Append(detailLog, << >>)
    /\ i' = AfterFetchError(i)
    /\ pc' = LoopPos(i')
    /\ UNCHANGED << token, username, help, exitCode, fatal, now, zone, todayStart,
                    todayEnd, weekStart, weekEnd, repos, commits, j, todayStats,
                    weekStats, todayTotal, weekTotal, weekAdditions, weekDeletions, out >>

\* weekCommitsOf keeping only what follows today
weekCommitsOf_afterToday(cs) ==
    SelectSeq(cs, LAMBDA c : ~(c.date < todayEnd) /\ c.date < weekEnd)

\* the commits that go to the "this week" bucket: all that the fetch returned
weekCommitsOf(cs) == cs

\* client.GetCommitsForRepo succeeds: the two buckets and the totals
FetchOK ==
    /\ pc = "loop"
    /\ \E cs \in FetchResults :
         LET todayCommits == filterCommitsByTimeRange(cs, todayStart, todayEnd)
             weekCommits  == weekCommitsOf(cs)
         IN  /\ netCalls' = netCalls + 1
             /\ fetchLog' = Append(fetchLog, [repo |-> repos[i], ok |-> TRUE, commits |-> cs])
             /\ detailLog' = Append(detailLog, << >>)
             /\ IF Len(todayCommits) > 0
                THEN /\ todayStats' = Append(todayStats, MkStats(repos[i], todayCommits))
                     /\ todayTotal' = todayTotal + Len(todayCommits)
                ELSE UNCHANGED << todayStats, todayTotal >>
             /\ IF Len(weekCommits) > 0
                THEN /\ weekStats' = Append(weekStats, MkStats(repos[i], weekCommits))
                     /\ weekTotal' = weekTotal + Len(weekCommits)
                     /\ commits' = weekCommits
                     /\ j' = 1
                     /\ pc' = "details"
                     /\ i' = i
                ELSE /\ UNCHANGED << weekStats, weekTotal, commits, j >>
                     /\ i' = i + 1
                     /\ pc' = LoopPos(i')
    /\ UNCHANGED << token, username, help, exitCode, fatal, now, zone, todayStart,
                    todayEnd, weekStart, weekEnd, repos, weekAdditions, weekDeletions, out >>

\* AfterDetailError leaving the inner loop: `break` in place of `continue`
AfterDetailError_break(k) == Len(commits) + 1

\* `continue` after a failed GetCommitStats: the next value of the inner loop variable
AfterDetailError(k) == k + 1

\* the inner loop variable becomes k: the next lookup, or the next repository
DetailStep(k) ==
    /\ j' = k
    /\ IF k > Len(commits)
       THEN i' = i + 1 /\ pc' = LoopPos(i')
       ELSE i' = i /\ pc' = "details"

\* client.GetCommitStats(repo.FullName, commit.SHA) succeeds
DetailOK ==
    /\ pc = "details"
    /\ netCalls' = netCalls + 1
    /\ weekAdditions' = weekAdditions + Additions(commits[j])
    /\ weekDeletions' = weekDeletions + Deletions(commits[j])
    /\ detailLog' = [detailLog EXCEPT ![i] =
                        Append(@, [sha |-> commits[j].sha, ok |-> TRUE,
                                   adds |-> Additions(commits[j]),
                                   dels |-> Deletions(commits[j])])]
    /\ DetailStep(j + 1)
    /\ UNCHANGED << token, username, help, exitCode, fatal, now, zone, todayStart,
                    todayEnd, weekStart, weekEnd, repos, commits, todayStats,
                    weekStats, todayTotal, weekTotal, fetchLog, out >>

\* client.GetCommitStats fails: the commit adds nothing
DetailFail ==
    /\ pc = "details"
    /\ netCalls' = netCalls + 1
    /\ detailLog' = [detailLog EXCEPT ![i] =
                        Append(@, [sha |-> commits[j].sha, ok |-> FALSE,
                                   adds |-> 0, dels |-> 0])]
    /\ DetailStep(AfterDetailError(j))
    /\ UNCHANGED << token, username, help, exitCode, fatal, now, zone, todayStart,
                    todayEnd, weekStart, weekEnd, repos, commits, todayStats,
                    weekStats, todayTotal, weekTotal, weekAdditions, weekDeletions,
                    fetchLog, out >>

\* the two printCommitStats calls and the normal end of main()
Report ==
    /\ pc = "report"
    /\ \E b \in Builds :
         LET t == printCommitStats(b, todayStats, todayTotal)
             w == printCommitStats(b, weekStats, weekTotal)
         IN  /\ out' = [today |-> t.lines, week |-> w.lines]
             /\ todayStats' = t.stats
             /\ weekStats' = w.stats
    /\ pc' = "done"
    /\ exitCode' = 0
    /\ UNCHANGED << token, username, help, fatal, netCalls, now, zone, todayStart,
                    todayEnd, weekStart, weekEnd, repos, i, commits, j, todayTotal,
                    weekTotal, weekAdditions, weekDeletions, fetchLog, detailLog >>

Next ==
    \/ ParseFlags
    \/ ListReposFail
    \/ ListReposOK
    \/ Ranges(PipelineNows, {UTC})
    \/ FetchFail
    \/ FetchOK
    \/ DetailOK
    \/ DetailFail
    \/ Report

Spec == Init /\ [][Next]_vars

---------------------------------------------------------------------------
(* The window computation on its own: getTimeRanges for every current      *)
(* instant of two weeks, in UTC and in every location that moves its       *)
(* clock by one hour, forward or back, at 02:00 of some day.               *)

AllNows == 0..MaxNow

Zones ==
    {UTC} \cup { [shift |-> sh, at |-> d * DayHours + 2]
                   : sh \in {-1, 1}, d \in 0..MaxShiftDay }

\* main() after a successful listing of no repositories, before getTimeRanges
InitTime ==
    /\ pc = "ranges"
    /\ token = "x" /\ username = "x" /\ help = FALSE
    /\ exitCode = 0 /\ fatal = "none" /\ netCalls = 1
    /\ now = 0 /\ zone = UTC
    /\ todayStart = 0 /\ todayEnd = 0 /\ weekStart = 0 /\ weekEnd = 0
    /\ repos = << >> /\ i = 1 /\ commits = << >> /\ j = 1
    /\ todayStats = << >> /\ weekStats = << >>
    /\ todayTotal = 0 /\ weekTotal = 0 /\ weekAdditions = 0 /\ weekDeletions = 0
    /\ fetchLog = << >> /\ detailLog = << >>
    /\ out = [today |-> << >>, week |-> << >>]

NextTime == Ranges(AllNows, Zones)

SpecTime == InitTime /\ [][NextTime]_vars

---------------------------------------------------------------------------
(* The report on its own: main() at the end of the loop, on a Wednesday    *)
(* noon, after up to MaxStats repositories whose fetches returned 1,       *)
(* maxShow or MaxCount commits dated at weekStart and whose detail lookups *)
(* all failed.                                                             *)

ReportCounts == {1, maxShow, MaxCount}

ReportRanges == CHOOSE r \in getTimeRanges(UTC, 60) : TRUE

CommitsOfCount(n) == [p \in 1..n |-> MkCommit(p, ReportRanges.weekStart)]

FailedLookups(cs) == [p \in 1..Len(cs) |-> [sha |-> cs[p].sha, ok |-> FALSE, adds |-> 0, dels |-> 0]]

RECURSIVE SumCounts(_, _)
SumCounts(s, k) == IF k > Len(s) THEN 0 ELSE s[k].Count + SumCounts(s, k + 1)

InitReport ==
    /\ pc = "report"
    /\ token = "x" /\ username = "x" /\ help = FALSE
    /\ exitCode = 0 /\ fatal = "none"
    /\ now = 60 /\ zone = UTC
    /\ todayStart = ReportRanges.todayStart /\ todayEnd = ReportRanges.todayEnd
    /\ weekStart = ReportRanges.weekStart /\ weekEnd = ReportRanges.weekEnd
    /\ repos \in { [r \in 1..n |-> r] : n \in 0..MaxStats }
    /\ weekStats \in { [r \in 1..Len(repos) |-> MkStats(r, CommitsOfCount(cnt[r]))]
                         : cnt \in [1..Len(repos) -> ReportCounts] }
    /\ weekTotal = SumCounts(weekStats, 1)
    /\ todayStats = << >> /\ todayTotal = 0
    /\ weekAdditions = 0 /\ weekDeletions = 0
    /\ fetchLog = [r \in 1..Len(repos) |->
                     [repo |-> r, ok |-> TRUE, commits |-> weekStats[r].Commits]]
    /\ detailLog = [r \in 1..Len(repos) |-> FailedLookups(weekStats[r].Commits)]
    /\ netCalls = 1 + Len(repos) + weekTotal
    /\ i = Len(repos) + 1
    /\ commits = IF Len(repos) = 0 THEN << >> ELSE weekStats[Len(repos)].Commits
    /\ j = Len(commits) + 1
    /\ out = [today |-> << >>, week |-> << >>]

NextReport == Report

SpecReport == InitReport /\ [][NextReport]_vars

---------------------------------------------------------------------------
(* Claims *)

WeekHours == WeekDays * DayHours

\* the wall clock reading of the most recent local Monday 00:00 at instant u
MondayWall(z, u) == (Wall(z, u) \div WeekHours) * WeekHours

\* C4: once getTimeRanges has returned, weekStart is 00:00:00 local time of
\* the most recent Monday (today when today is Monday, six days back on a
\* Sunday), weekEnd is the Monday 00:00:00 local time seven days after
\* weekStart, and weekStart <= todayStart < todayEnd <= weekEnd.
C4_WeekWindow ==
    pc = "report" =>
        /\ Wall(zone, weekStart) = MondayWall(zone, now)
        /\ Wall(zone, weekEnd) = MondayWall(zone, now) + WeekHours
        /\ weekStart <= todayStart
        /\ todayStart < todayEnd
        /\ todayEnd <= weekEnd

---------------------------------------------------------------------------
(* The pipeline's claims: helpers *)

\* main() ended after printing its report
Reported == pc = "done" /\ Len(out.week) > 0

InSeq(x, s) == \E p \in 1..Len(s) : s[p] = x

\* the commits of repository r's entry in a per-repository listing
Bucket(stats, r) ==
    LET es == { k \in 1..Len(stats) : stats[k].Repository = r }
    IN  IF es = {} THEN << >> ELSE stats[CHOOSE k \in es : TRUE].Commits

HasEntry(stats, r) == \E k \in 1..Len(stats) : stats[k].Repository = r

\* the fetches that succeeded so far
OkFetches == { k \in 1..Len(fetchLog) : fetchLog[k].ok }

\* C1: a fetched commit is in its repository's "today" bucket if and only if
\* todayStart <= t < todayEnd for its author date t (so a commit at todayStart
\* is in, a commit at todayEnd is out).
C1_TodayHalfOpen ==
    \A k \in OkFetches :
        \A p \in 1..Len(fetchLog[k].commits) :
            LET c == fetchLog[k].commits[p]
            IN  InSeq(c, Bucket(todayStats, fetchLog[k].repo))
                    <=> (todayStart <= c.date /\ c.date < todayEnd)

\* a finished run that fetched a commit dated todayStart, which is in the
\* bucket, and one dated todayEnd, which is not
C1_Witness ==
    /\ pc = "done"
    /\ \E k \in OkFetches : \E p \in 1..Len(fetchLog[k].commits) :
          /\ fetchLog[k].commits[p].date = todayStart
          /\ InSeq(fetchLog[k].commits[p], Bucket(todayStats, fetchLog[k].repo))
    /\ \E k \in OkFetches : \E p \in 1..Len(fetchLog[k].commits) :
          /\ fetchLog[k].commits[p].date = todayEnd
          /\ ~InSeq(fetchLog[k].commits[p], Bucket(todayStats, fetchLog[k].repo))

RECURSIVE SumLens(_, _)
\* the number of commits in a per-repository listing
SumLens(stats, k) == IF k > Len(stats) THEN 0 ELSE Len(stats[k].Commits) + SumLens(stats, k + 1)

\* C2: every commit of a "this week" bucket has weekStart <= t < weekEnd, and
\* the week total counts no other commit.
C2_WeekEndBound ==
    /\ \A k \in 1..Len(weekStats) :
          \A p \in 1..Len(weekStats[k].Commits) :
              LET t == weekStats[k].Commits[p].date
              IN  weekStart <= t /\ t < weekEnd
    /\ weekTotal = SumLens(weekStats, 1)

\* C3: every commit of a repository's "today" bucket is in that repository's
\* "this week" bucket, every repository with a today entry has a week entry,
\* and todayTotal <= weekTotal.
C3_TodaySubsetOfWeek ==
    /\ \A k \in 1..Len(todayStats) :
          /\ HasEntry(weekStats, todayStats[k].Repository)
          /\ \A p \in 1..Len(todayStats[k].Commits) :
                InSeq(todayStats[k].Commits[p], Bucket(weekStats, todayStats[k].Repository))
    /\ todayTotal <= weekTotal

\* part of the list is processed: a repository has a today entry and a week
\* entry with more commits, and another repository is still to come
C3_Witness ==
    /\ pc = "loop"
    /\ \E k \in 1..Len(todayStats) :
          Len(Bucket(weekStats, todayStats[k].Repository)) > todayStats[k].Count
    /\ todayTotal > 0
    /\ todayTotal < weekTotal

\* the entries a listing holds, whatever their order
Entries(stats) == { stats[k] : k \in 1..Len(stats) }

\* the commits of a fetch result dated inside [start, end)
Within(cs, start, end) ==
    { p \in 1..Len(cs) : start <= cs[p].date /\ cs[p].date < end }

\* the sub-sequence of cs at the positions in ps
RECURSIVE Pick(_, _, _)
Pick(cs, ps, k) ==
    IF k > Len(cs) THEN << >>
    ELSE (IF k \in ps THEN << cs[k] >> ELSE << >>) \o Pick(cs, ps, k + 1)

\* the "today" entries the successful fetches alone give
ExpectedToday ==
    { [Repository |-> fetchLog[k].repo,
       Count      |-> Cardinality(Within(fetchLog[k].commits, todayStart, todayEnd)),
       Commits    |-> Pick(fetchLog[k].commits,
                           Within(fetchLog[k].commits, todayStart, todayEnd), 1)]
        : k \in { q \in OkFetches :
                    Within(fetchLog[q].commits, todayStart, todayEnd) # {} } }

\* the "this week" entries the successful fetches alone give
ExpectedWeek ==
    { [Repository |-> fetchLog[k].repo,
       Count      |-> Len(fetchLog[k].commits),
       Commits    |-> fetchLog[k].commits]
        : k \in { q \in OkFetches : Len(fetchLog[q].commits) > 0 } }

RECURSIVE SumOver(_, _)
\* the sum of f over the finite set S of its domain
SumOver(f, S) ==
    IF S = {} THEN 0
    ELSE LET x == CHOOSE y \in S : TRUE IN f[x] + SumOver(f, S \ {x})

\* main() has not stopped short of its end: it is done, or it stands before a
\* step it can take (in the loops, at a repository or a commit that exists)
Running ==
    \/ pc \in {"start", "list", "ranges", "report", "done"}
    \/ pc = "loop" /\ i \in 1..Len(repos)
    \/ pc = "details" /\ i \in 1..Len(repos) /\ j \in 1..Len(commits)

\* C6: whatever fetches fail, the run goes on through every later repository
\* to the report, and the entries and totals of both windows are those of
\* the repositories whose fetch succeeded; a failed repository has no entry.
C6_PartialFailure ==
    /\ Running
    /\ pc \in {"loop", "details"} => Len(fetchLog) \in {i - 1, i}
    /\ (pc = "report" \/ Reported) =>
          /\ Len(fetchLog) = Len(repos)
          /\ \A k \in 1..Len(repos) : fetchLog[k].repo = repos[k]
          /\ Entries(todayStats) = ExpectedToday
          /\ Len(todayStats) = Cardinality(ExpectedToday)
          /\ Entries(weekStats) = ExpectedWeek
          /\ Len(weekStats) = Cardinality(ExpectedWeek)
          /\ todayTotal = SumOver([k \in OkFetches |->
                              Cardinality(Within(fetchLog[k].commits, todayStart, todayEnd))],
                              OkFetches)
          /\ weekTotal = SumOver([k \in OkFetches |-> Len(fetchLog[k].commits)], OkFetches)
          /\ \A k \in 1..Len(fetchLog) :
                ~fetchLog[k].ok => /\ ~HasEntry(todayStats, fetchLog[k].repo)
                                   /\ ~HasEntry(weekStats, fetchLog[k].repo)

\* a run that printed its report after the first repository's fetch failed
\* and the second one's returned commits of today
C6_Witness ==
    /\ Reported
    /\ Len(fetchLog) = 2
    /\ ~fetchLog[1].ok
    /\ fetchLog[2].ok
    /\ todayTotal > 0

SomeLookupFailed ==
    \/ \E k \in 1..Len(fetchLog) : ~fetchLog[k].ok
    \/ \E k \in 1..Len(detailLog) : \E p \in 1..Len(detailLog[k]) : ~detailLog[k][p].ok

Lookups(r) ==
    LET ks == { k \in 1..Len(fetchLog) : fetchLog[k].repo = r }
    IN  IF ks = {} THEN << >> ELSE detailLog[CHOOSE k \in ks : TRUE]

\* what the lookups of one week entry that succeeded add up to
EntryAdds(e) ==
    SumOver([p \in 1..Len(Lookups(e.Repository)) |->
                IF Lookups(e.Repository)[p].ok THEN e.Commits[p].sha + 1 ELSE 0],
            1..Len(Lookups(e.Repository)))

EntryDels(e) ==
    SumOver([p \in 1..Len(Lookups(e.Repository)) |->
                IF Lookups(e.Repository)[p].ok THEN e.Commits[p].sha ELSE 0],
            1..Len(Lookups(e.Repository)))

\* C8: at the report, every commit of every "this week" bucket has had its
\* detail lookup, in bucket order, whether or not earlier lookups failed;
\* weekAdditions and weekDeletions are the sums over exactly the commits
\* whose lookup succeeded; and a commit whose lookup failed still counts in
\* its entry and in the week total.
C8_WeekLineTotals ==
    (pc = "report" \/ Reported) =>
        /\ \A k \in 1..Len(weekStats) :
              LET e == weekStats[k]
              IN  /\ Len(Lookups(e.Repository)) = Len(e.Commits)
                  /\ \A p \in 1..Len(e.Commits) :
                        Lookups(e.Repository)[p].sha = e.Commits[p].sha
                  /\ e.Count = Len(e.Commits)
        /\ weekAdditions = SumOver([k \in 1..Len(weekStats) |-> EntryAdds(weekStats[k])],
                                   1..Len(weekStats))
        /\ weekDeletions = SumOver([k \in 1..Len(weekStats) |-> EntryDels(weekStats[k])],
                                   1..Len(weekStats))
        /\ weekTotal = SumLens(weekStats, 1)

\* a finished run in which the first lookup of a repository failed, the next
\* one succeeded, and a later repository had a successful lookup too
C8_Witness ==
    /\ Reported
    /\ Len(detailLog) = 2
    /\ Len(detailLog[1]) = 2
    /\ ~detailLog[1][1].ok
    /\ detailLog[1][2].ok
    /\ Len(detailLog[2]) > 0
    /\ detailLog[2][1].ok
    /\ weekTotal > 2
    /\ weekAdditions > 0

\* the lines of one kind in a printed section
LinesOf(lines, kind) == SelectSeq(lines, LAMBDA l : l.kind = kind)

\* the number of fetched commits dated inside [start, end)
Qualifying(start, end) ==
    SumOver([k \in OkFetches |-> Cardinality(Within(fetchLog[k].commits, start, end))],
            OkFetches)

\* what C10 says of one printed section: its total is the sum of the counts
\* of the window's entries; it says "No commits found for this period", and
\* lists no repository, exactly when no fetched commit is dated inside the
\* window; otherwise it lists every repository with a positive count.
SectionOK(lines, stats, start, end) ==
    /\ lines[1] = Line("total", 0, SumCounts(stats, 1))
    /\ (Len(LinesOf(lines, "none")) = 1 /\ Len(LinesOf(lines, "repo")) = 0)
          <=> (Qualifying(start, end) = 0)
    /\ Qualifying(start, end) > 0 =>
          /\ Len(LinesOf(lines, "none")) = 0
          /\ \A k \in 1..Len(stats) :
                stats[k].Count > 0 =>
                    InSeq(Line("repo", stats[k].Repository, stats[k].Count), lines)

\* C10: both sections of the report are as C10 says.
C10_ZeroCase ==
    Reported =>
        /\ SectionOK(out.today, todayStats, todayStart, todayEnd)
        /\ SectionOK(out.week, weekStats, weekStart, weekEnd)

---------------------------------------------------------------------------
(* The report's claims *)

\* the position of repository r in the order the repositories were processed
Processed(r) == CHOOSE k \in 1..Len(repos) : repos[k] = r

\* C5: the repositories of the week listing are printed by descending commit
\* count, and repositories with equal counts in the order they were
\* processed; three repositories with 3, 3 and 5 commits, processed in that
\* order, are printed third, first, second.
C5_StableRanking ==
    Reported =>
        LET ranked == LinesOf(out.week, "repo")
        IN  /\ \A p \in 1..Len(ranked) : \A q \in 1..Len(ranked) :
                  p < q => /\ ranked[p].n >= ranked[q].n
                           /\ ranked[p].n = ranked[q].n =>
                                 Processed(ranked[p].repo) < Processed(ranked[q].repo)
            /\ (/\ Len(fetchLog) = 3
                /\ Len(fetchLog[1].commits) = 3
                /\ Len(fetchLog[2].commits) = 3
                /\ Len(fetchLog[3].commits) = 5)
                  => [p \in 1..Len(ranked) |-> ranked[p].repo] = << repos[3], repos[1], repos[2] >>

\* the lines that follow the "repo" line at position p, up to the next
\* "repo" line or the end of the section
RECURSIVE EntryBlock(_, _)
EntryBlock(lines, p) ==
    IF p + 1 > Len(lines) \/ lines[p + 1].kind = "repo" THEN << >>
    ELSE << lines[p + 1] >> \o EntryBlock(lines, p + 1)

\* C9: an entry with n commits is printed as its "repo" line, then one line
\* for each of its first min(n, 3) commits in bucket order, then the line
\* "... and n - 3 more commits" if n > 3, and nothing else.
C9_DisplayCap ==
    Reported =>
        /\ Len(LinesOf(out.week, "repo")) = Len(weekStats)
        /\ \A p \in 1..Len(out.week) :
              out.week[p].kind = "repo" =>
                  LET r  == out.week[p].repo
                      cs == Bucket(weekStats, r)
                      n  == Len(cs)
                      m  == IF n < 3 THEN n ELSE 3
                  IN  /\ out.week[p].n = n
                      /\ EntryBlock(out.week, p) =
                            [q \in 1..m |-> Line("commit", r, cs[q].sha)]
                            \o (IF n > 3 THEN << Line("more", r, n - 3) >> ELSE << >>)

\* a report with an entry of 5 commits, printed as 3 lines and "... and 2
\* more commits", an entry of exactly 3 commits and an entry of 1 commit
C9_Witness ==
    /\ Reported
    /\ \E k \in 1..Len(weekStats) :
          /\ weekStats[k].Count = 5
          /\ InSeq(Line("more", weekStats[k].Repository, 2), out.week)
    /\ \E k \in 1..Len(weekStats) : weekStats[k].Count = 3
    /\ \E k \in 1..Len(weekStats) : weekStats[k].Count = 1

=============================================================================
